---------------------------- MODULE Spec2Model ----------------------------
(***************************************************************************)
(* A model of the CPLD URL resolver (scraper/resolve_cpld_urls.py, whose   *)
(* main() scraper/scraper.py repeats): the date normalizer, the candidate  *)
(* ranking of the JSON and catalog resolvers, and the orchestrator main(). *)
(*                                                                         *)
(* Python strings whose characters the code looks at (dates, versions,     *)
(* model names, labels, driver ids) are sequences of one-character         *)
(* strings; strings that are only compared for equality (product codes,    *)
(* platform codes, error tags) are TLA+ strings.  A Python None or ""      *)
(* that the code only tests for truthiness is the empty sequence or "".    *)
(***************************************************************************)
EXTENDS Integers, Sequences, FiniteSets, TLC

VARIABLES
    pc,          \* position of main(): which statement runs next
    models,      \* main: models, the list _load_models_safely returned
    i,           \* main: index of the entry the pass-1 loop is at
    oscode,      \* _resolve_latest_cpld_json: index of the platform code tried next
    resp,        \* _resolve_latest_cpld_json: the response of the request in flight
    res,         \* the resolver's loop body: what it made of resp; main: res, the
                 \* catalog resolver's return value or exception
    overlay,     \* main: overlay, model name -> url
    details,     \* main: details, the diagnostic rows
    unresolved,  \* main: unresolved, entries left for the catalog pass
    xml_text,    \* main: xml_text, the decoded catalog ("" until downloaded)
    j,           \* main: index into unresolved of the pass-2 loop
    calls,       \* every external call made so far, in order
    files,       \* every _write_overlay_and_report call: what was written
    arg,         \* pure-function specifications: the input drawn
    ret          \* pure-function specifications: the value computed

vars == <<pc, models, i, oscode, resp, res, overlay, details, unresolved,
          xml_text, j, calls, files, arg, ret>>

mainVars == <<pc, models, i, oscode, resp, res, overlay, details, unresolved,
              xml_text, j, calls, files>>

-----------------------------------------------------------------------------
(* Characters and strings *)

Str(s) == s   \* a Python str, as a sequence of one-character strings

Digits == <<"0", "1", "2", "3", "4", "5", "6", "7", "8", "9">>

UpperLetters == <<"A", "B", "C", "D", "E", "F", "G", "H", "I", "J", "K", "L", "M",
                  "N", "O", "P", "Q", "R", "S", "T", "U", "V", "W", "X", "Y", "Z">>

LowerLetters == <<"a", "b", "c", "d", "e", "f", "g", "h", "i", "j", "k", "l", "m",
                  "n", "o", "p", "q", "r", "s", "t", "u", "v", "w", "x", "y", "z">>

\* The characters of the model in code point order (only the order matters
\* to str comparison).
CodePointOrder == <<"\t", " ", "-", ".", "/">> \o Digits \o <<":">> \o UpperLetters
                  \o <<"_">> \o LowerLetters

Range(f) == {f[x] : x \in DOMAIN f}

IndexOf(seq, c) == CHOOSE n \in 1..Len(seq) : seq[n] = c

DigitSet == Range(Digits)

UpperSet == Range(UpperLetters)

LowerSet == Range(LowerLetters)

IsDigit(c) == c \in DigitSet

DigitVal(c) == IndexOf(Digits, c) - 1

IsSpace(c) == c \in {" ", "\t"}

OrdOf == [c \in Range(CodePointOrder) |-> IndexOf(CodePointOrder, c)]

ord(c) == OrdOf[c]

\* str.lower() on one character
LowerOf == [c \in UpperSet |-> LowerLetters[IndexOf(UpperLetters, c)]]

LowerChar(c) == IF c \in UpperSet THEN LowerOf[c] ELSE c

\* str.lower()
lower(s) == [n \in 1..Len(s) |-> LowerChar(s[n])]

Min(S) == CHOOSE n \in S : \A m \in S : n <= m

Max(S) == CHOOSE n \in S : \A m \in S : m <= n

Between(s, keep) == IF keep = {} THEN <<>> ELSE SubSeq(s, Min(keep), Max(keep))

\* str.strip(): leading and trailing whitespace removed
strip(s) == Between(s, {n \in 1..Len(s) : ~IsSpace(s[n])})

Before(s, at) == IF at = {} THEN s ELSE SubSeq(s, 1, Min(at) - 1)

\* s.split(sep)[0]: the part of s before the first occurrence of the character sep
SplitFirst(s, sep) == Before(s, {n \in 1..Len(s) : s[n] = sep})

\* Python's < on str: lexicographic by code point, a proper prefix first
RECURSIVE StrLT(_, _)
StrLT(a, b) ==
    IF b = <<>> THEN FALSE
    ELSE IF a = <<>> THEN TRUE
    ELSE IF a[1] # b[1] THEN ord(a[1]) < ord(b[1])
    ELSE StrLT(Tail(a), Tail(b))

-----------------------------------------------------------------------------
(* datetime and datetime.strptime, for the three formats _parse_date uses *)

MINYEAR == 1

datetime(y, m, d) == [year |-> y, month |-> m, day |-> d]

\* datetime.min
datetime_min == datetime(MINYEAR, 1, 1)

\* Python's < on datetime (the time of day is 00:00 in every value here)
DatetimeLT(a, b) ==
    \/ a.year < b.year
    \/ a.year = b.year /\ a.month < b.month
    \/ a.year = b.year /\ a.month = b.month /\ a.day < b.day

IsLeap(y) == (y % 4 = 0 /\ y % 100 # 0) \/ y % 400 = 0

DaysInMonth(y, m) ==
    IF m = 2 THEN (IF IsLeap(y) THEN 29 ELSE 28)
    ELSE IF m \in {4, 6, 9, 11} THEN 30 ELSE 31

\* The directive patterns of _strptime.TimeRE; 0 when the token does not match.
\* %d: 3[0-1]|[1-2]\d|0[1-9]|[1-9]| [1-9]
DayTok(t) ==
    IF Len(t) = 1 /\ IsDigit(t[1]) /\ t[1] # "0" THEN DigitVal(t[1])
    ELSE IF Len(t) = 2 /\ IsDigit(t[2])
      THEN IF t[1] = "3" /\ t[2] \in {"0", "1"} THEN 30 + DigitVal(t[2])
           ELSE IF t[1] \in {"1", "2"} THEN 10 * DigitVal(t[1]) + DigitVal(t[2])
           ELSE IF t[1] \in {"0", " "} /\ t[2] # "0" THEN DigitVal(t[2])
           ELSE 0
    ELSE 0

\* %m: 1[0-2]|0[1-9]|[1-9]
MonthTok(t) ==
    IF Len(t) = 1 /\ IsDigit(t[1]) /\ t[1] # "0" THEN DigitVal(t[1])
    ELSE IF Len(t) = 2 /\ IsDigit(t[2])
      THEN IF t[1] = "1" /\ t[2] \in {"0", "1", "2"} THEN 10 + DigitVal(t[2])
           ELSE IF t[1] = "0" /\ t[2] # "0" THEN DigitVal(t[2])
           ELSE 0
    ELSE 0

\* %Y: \d\d\d\d; -1 when the token does not match (0000 matches, and is year 0)
YearTok(t) ==
    IF Len(t) = 4 /\ \A n \in 1..4 : IsDigit(t[n])
    THEN 1000 * DigitVal(t[1]) + 100 * DigitVal(t[2]) + 10 * DigitVal(t[3]) + DigitVal(t[4])
    ELSE -1

MonthAbbr == <<Str(<<"j", "a", "n">>), Str(<<"f", "e", "b">>), Str(<<"m", "a", "r">>),
               Str(<<"a", "p", "r">>), Str(<<"m", "a", "y">>), Str(<<"j", "u", "n">>),
               Str(<<"j", "u", "l">>), Str(<<"a", "u", "g">>), Str(<<"s", "e", "p">>),
               Str(<<"o", "c", "t">>), Str(<<"n", "o", "v">>), Str(<<"d", "e", "c">>)>>

\* %b: jan|feb|...|dec, case-insensitive
MonthAbbrSet == Range(MonthAbbr)

MonthNameTok(t) ==
    IF Len(t) = 3 /\ lower(t) \in MonthAbbrSet THEN IndexOf(MonthAbbr, lower(t)) ELSE 0

\* The outcome of one strptime call: a datetime, or ValueError raised.
ValueError == [ok |-> FALSE]

Parsed(y, m, d) ==
    IF y >= MINYEAR /\ m >= 1 /\ d >= 1 /\ d <= DaysInMonth(y, m)
    THEN [ok |-> TRUE, value |-> datetime(y, m, d)]
    ELSE ValueError

\* The three parts of s around its separators sep, when s holds exactly two;
\* <<>> otherwise (no directive of the formats matches the separator).
CutAt(s, p, q) == <<SubSeq(s, 1, p - 1), SubSeq(s, p + 1, q - 1), SubSeq(s, q + 1, Len(s))>>

Parts3At(s, at) == IF Cardinality(at) # 2 THEN <<>> ELSE CutAt(s, Min(at), Max(at))

Parts3(s, sep) == Parts3At(s, {n \in 1..Len(s) : s[n] = sep})

\* A date from the tokens of its year, month and day
FromTokens(y, m, d) == IF y = -1 THEN ValueError ELSE Parsed(y, m, d)

ISOParts(parts) ==
    IF parts = <<>> THEN ValueError
    ELSE FromTokens(YearTok(parts[1]), MonthTok(parts[2]), DayTok(parts[3]))

\* strptime(s, "%Y-%m-%d")
StrptimeISO(s) == ISOParts(Parts3(s, "-"))

SlashParts(parts) ==
    IF parts = <<>> THEN ValueError
    ELSE FromTokens(YearTok(parts[3]), MonthTok(parts[1]), DayTok(parts[2]))

\* strptime(s, "%m/%d/%Y")
StrptimeSlash(s) == SlashParts(Parts3(s, "/"))

\* The maximal runs of non-whitespace characters of s, in order
RECURSIVE Words(_)
WordsFrom(s, sp) ==
    IF sp = {} THEN <<s>>
    ELSE <<SubSeq(s, 1, Min(sp) - 1)>> \o Words(SubSeq(s, Min(sp), Len(s)))

Words(s) ==
    IF s = <<>> THEN <<>>
    ELSE IF IsSpace(s[1]) THEN Words(Tail(s))
    ELSE WordsFrom(s, {n \in 1..Len(s) : IsSpace(s[n])})

\* strptime(s, "%d %b %Y"): the blanks of the format match \s+, the day may
\* be written " 5" (the one directive pattern that starts with a blank)
DMYWords(s, w, lead) ==
    IF \/ Len(w) # 3
       \/ IsSpace(s[Len(s)])
       \/ (IsSpace(s[1]) /\ lead = <<>>)
    THEN ValueError
    ELSE FromTokens(YearTok(w[3]), MonthNameTok(w[2]), DayTok(lead \o w[1]))

StrptimeDMY(s) ==
    DMYWords(s, Words(s),
             IF Len(s) >= 2 /\ s[1] = " " /\ ~IsSpace(s[2]) THEN <<" ">> ELSE <<>>)

\* Python values whose type the code depends on: None, a str, a list holding
\* one str (a YAML sequence where a name was expected)
PyNone == [py |-> "None"]

PyStr(s) == [py |-> "str", s |-> s]

PyList(s) == [py |-> "list", s |-> s]

\* _parse_date(s): the outcome is a returned datetime or an exception that
\* escaped.  Every strptime sits in try/except Exception: pass.
\* The loop without its try/except: the first ValueError escapes
TryFormats_NoExcept(r1, r2, r3) ==
    IF r1.ok THEN [raised |-> FALSE, value |-> r1.value]
    ELSE [raised |-> TRUE, value |-> datetime_min]

\* The loop over the formats: the first strptime that returns is the result;
\* a ValueError is swallowed (except Exception: pass); datetime.min at the end.
TryFormats(r1, r2, r3) ==
    IF r1.ok THEN [raised |-> FALSE, value |-> r1.value]
    ELSE IF r2.ok THEN [raised |-> FALSE, value |-> r2.value]
    ELSE IF r3.ok THEN [raised |-> FALSE, value |-> r3.value]
    ELSE [raised |-> FALSE, value |-> datetime_min]

\* s.split("T")[0] handed to each strptime
ParseDatePart(t) == TryFormats(StrptimeDMY(t), StrptimeISO(t), StrptimeSlash(t))

\* (s or "").strip().split("T")[0]
DatePart(v) == SplitFirst(strip(IF v.py = "None" THEN <<>> ELSE v.s), "T")

_parse_date(v) == ParseDatePart(DatePart(v))


-----------------------------------------------------------------------------
(* list.sort(key=..., reverse=True) *)

\* The list sorted by descending key; items of equal key keep their order
\* (Python's sort is stable, also under reverse=True).  lt[a, b] tells whether
\* the key of item a is < the key of item b.
\* before[a]: how many items come before item a in the sorted list
PlaceBy(seq, before) == [p \in 1..Len(seq) |-> seq[CHOOSE a \in 1..Len(seq) : before[a] = p - 1]]

\* A sort that is not stable: of items of equal key the last comes first
SortReverse_LastSeenFirst(seq, lt) ==
    PlaceBy(seq, [a \in 1..Len(seq) |->
                    Cardinality({b \in 1..Len(seq) : \/ lt[a, b]
                                                      \/ (~lt[a, b] /\ ~lt[b, a] /\ b > a)})])

SortReverse(seq, lt) ==
    PlaceBy(seq, [a \in 1..Len(seq) |->
                    Cardinality({b \in 1..Len(seq) : \/ lt[a, b]
                                                      \/ (~lt[a, b] /\ ~lt[b, a] /\ b < a)})])

-----------------------------------------------------------------------------
(* The JSON path *)

\* An item of DriverListData, by what the resolver reads of it:
\*   cpld        _is_cpld_json(d)
\*   ReleaseDate, LUPDDate, DellVer   the fields of these names ("" if absent)
\*   driverid    _extract_driverid_from_record(d), <<>> for None
Item(cpld, rel, lupd, ver, did) ==
    [cpld |-> cpld, ReleaseDate |-> rel, LUPDDate |-> lupd, DellVer |-> ver, driverid |-> did]

\* The sort key of line 124-126
JsonKey(d) == <<_parse_date(PyStr(d.ReleaseDate)).value,
                _parse_date(PyStr(d.LUPDDate)).value,
                d.DellVer>>

\* Python's < on two such tuples
JsonKeyLT(a, b) ==
    \/ DatetimeLT(a[1], b[1])
    \/ a[1] = b[1] /\ DatetimeLT(a[2], b[2])
    \/ a[1] = b[1] /\ a[2] = b[2] /\ StrLT(a[3], b[3])

UrlPrefix == "https://www.dell.com/support/home/en-us/drivers/driversdetails?driverid="

\* f"https://...driversdetails?driverid={driverid.lower()}"
DriverUrl(driverid) == <<UrlPrefix, lower(driverid)>>

\* The platform codes with the first two exchanged
oscodes_Exchanged == <<"W2022", "NAA", "WT64A", "UBT20">>

oscodes == <<"NAA", "W2022", "WT64A", "UBT20">>

\* What the body of the loop over oscodes does with one response: `continue`
\* or the dict returned.  A response is [kind |-> "error"] when anything in the
\* try block raises (transport error, raise_for_status, r.json(), a payload
\* of the wrong shape), else [kind |-> "ok", items |-> DriverListData].
\* lines 124-127: cpld.sort(key=..., reverse=True); latest = cpld[0]
JsonLatest(cpld) ==
    LET k == [a \in 1..Len(cpld) |-> JsonKey(cpld[a])]
    IN SortReverse(cpld, [a \in 1..Len(cpld), b \in 1..Len(cpld) |-> JsonKeyLT(k[a], k[b])])[1]

Continue == [continue |-> TRUE]

NoResponse == [kind |-> "none"]

ErrorResponse == [kind |-> "error"]

OkResponse(items) == [kind |-> "ok", items |-> items]

JsonAttempt(response, code) ==
    IF response.kind = "error" THEN Continue               \* except Exception: continue
    ELSE LET IsCpld(d) == d.cpld
             cpld == SelectSeq(response.items, IsCpld)
         IN IF cpld = <<>> THEN Continue                    \* if not cpld: continue
            ELSE LET latest == JsonLatest(cpld)
                     driverid == latest.driverid
                 IN IF driverid = <<>> THEN Continue        \* if not driverid: continue
                    ELSE [continue |-> FALSE,
                          res |-> [py       |-> "dict",
                                   driverid |-> driverid,
                                   url      |-> DriverUrl(driverid),
                                   version  |-> latest.DellVer,
                                   released |-> IF latest.ReleaseDate # <<>>
                                                THEN latest.ReleaseDate ELSE latest.LUPDDate,
                                   source   |-> "json:" \o code]]

-----------------------------------------------------------------------------
(* The catalog path *)

WordChars == DigitSet \cup UpperSet \cup LowerSet \cup {"_"}

\* \w
IsWordChar(c) == c \in WordChars

RECURSIVE JoinBlank(_)
JoinBlank(w) ==
    IF w = <<>> THEN <<>>
    ELSE IF Len(w) = 1 THEN w[1]
    ELSE w[1] \o <<" ">> \o JoinBlank(Tail(w))

\* re.sub(r"\s+", " ", s.strip().lower())
_canon(s) == JoinBlank(Words(lower(strip(s))))

Chars_poweredge == <<"p", "o", "w", "e", "r", "e", "d", "g", "e">>

Chars_dell == <<"d", "e", "l", "l">>

Chars_emc == <<"e", "m", "c">>

BrandPrefixes ==
    {<<>>,
     Chars_poweredge \o <<" ">>,
     Chars_dell \o <<" ">>,
     Chars_dell \o <<" ">> \o Chars_poweredge \o <<" ">>,
     Chars_dell \o <<" ">> \o Chars_emc \o <<" ">> \o Chars_poweredge \o <<" ">>}

LabelsOf(base) == {_canon(prefix \o base) : prefix \in BrandPrefixes}

_labels_for_name(name) == LabelsOf(strip(name))

\* \b at the gap after the first p characters of s
WordBoundary(s, p) ==
    LET left  == p >= 1 /\ IsWordChar(s[p])
        right == p < Len(s) /\ IsWordChar(s[p + 1])
    IN left # right

\* A search without the two \b: base anywhere in disp
SearchWord_Substring(base, disp) ==
    \E p \in 0..(Len(disp) - Len(base)) : SubSeq(disp, p + 1, p + Len(base)) = base

\* re.search(rf"\b{re.escape(base)}\b", disp)
SearchWord(base, disp) ==
    \E p \in 0..(Len(disp) - Len(base)) :
        /\ SubSeq(disp, p + 1, p + Len(base)) = base
        /\ WordBoundary(disp, p)
        /\ WordBoundary(disp, p + Len(base))

\* lines 200-203, on the label set and the canonical name and label
MatchesCanon(labset, base, disp) ==
    IF disp \in labset THEN TRUE ELSE SearchWord(base, disp)

_display_matches(name, display) ==
    MatchesCanon(_labels_for_name(name), _canon(name), _canon(display))

\* A SoftwareComponent node, by what the resolver reads of it:
\*   cpld      _is_cpld_catalog(sc, ns)
\*   models    _collect_models_from_component(sc, ns)
\*   version, released   DellVersion and ReleaseDate, stripped
\*   driverid  the id found in the filename or the serialized node, <<>> for None
Component(cpld, labels, ver, rel, did) ==
    [cpld |-> cpld, models |-> labels, version |-> ver, released |-> rel, driverid |-> did]

\* The sort key of line 290
CatalogKey(x) == <<_parse_date(PyStr(x.released)).value, x.version>>

CatalogKeyLT(a, b) ==
    \/ DatetimeLT(a[1], b[1])
    \/ a[1] = b[1] /\ StrLT(a[2], b[2])

\* The decoded catalog text: "" (empty), text that ET.fromstring rejects, or a
\* document with its SoftwareComponent nodes.
CatalogText(wellformed, components) ==
    [empty |-> FALSE, wellformed |-> wellformed, components |-> components]

EmptyText == [empty |-> TRUE, wellformed |-> FALSE, components |-> <<>>]

\* _catalog_latest_cpld_for_model(xml_text, model_display): the dict or None
\* returned, or an exception raised (ET.ParseError of line 222; AttributeError
\* of name.strip() when the configured name is no str).
Raised == [raised |-> TRUE, res |-> PyNone]

\* lines 290-291: candidates.sort(key=..., reverse=True); top = candidates[0]
CatalogLatest(candidates) ==
    LET k == [a \in 1..Len(candidates) |-> CatalogKey(candidates[a])]
    IN SortReverse(candidates,
                   [a \in 1..Len(candidates), b \in 1..Len(candidates) |-> CatalogKeyLT(k[a], k[b])])[1]

\* The dict built from the top candidate, lines 287-300
CatalogTop(candidates) ==
    IF candidates = <<>> THEN [raised |-> FALSE, res |-> PyNone]
    ELSE LET top == CatalogLatest(candidates)
         IN [raised |-> FALSE,
             res |-> [py       |-> "dict",
                      driverid |-> top.driverid,
                      url      |-> DriverUrl(top.driverid),
                      version  |-> top.version,
                      released |-> top.released,
                      source   |-> "catalog"]]

\* The loop of lines 229-284 over the CPLD nodes that name systems: those whose
\* labels match the model (_display_matches, its label set and canonical
\* name computed once) and that yield a driver id
CatalogCandidates(labelled, labset, base) ==
    LET Matches(sc) == \E n \in 1..Len(sc.models) :
                           MatchesCanon(labset, base, _canon(sc.models[n]))
        HasId(sc) == sc.driverid # <<>>
    IN SelectSeq(SelectSeq(labelled, Matches), HasId)

_catalog_latest_cpld_for_model(xml, model_display) ==
    IF ~xml.wellformed THEN Raised
    ELSE LET IsCpld(sc) == sc.cpld
             Labelled(sc) == sc.models # <<>>
             labelled == SelectSeq(SelectSeq(xml.components, IsCpld), Labelled)
         IN IF labelled = <<>> THEN CatalogTop(<<>>)
            ELSE IF model_display.py # "str" THEN Raised
            ELSE CatalogTop(CatalogCandidates(labelled, _labels_for_name(model_display.s),
                                              _canon(model_display.s)))

-----------------------------------------------------------------------------
(* main(): the inputs of a run *)

MaxModels == 2

R640 == Str(<<"R", "6", "4", "0">>)

R740 == Str(<<"R", "7", "4", "0">>)

Date2023 == Str(<<"2", "0", "2", "3", "-", "0", "1", "-", "0", "1">>)

Date2024 == Str(<<"2", "0", "2", "4", "-", "0", "6", "-", "0", "1">>)

Ver106 == Str(<<"1", ".", "0", ".", "6">>)

Ver110 == Str(<<"1", ".", "1", ".", "0">>)

Id9N4DH == Str(<<"9", "N", "4", "D", "H">>)

IdX7K2M == Str(<<"X", "7", "K", "2", "M">>)

IdC0FFE == Str(<<"C", "0", "F", "F", "E">>)

LabelR640 == Str(<<"P", "o", "w", "e", "r", "E", "d", "g", "e", " ", "R", "6", "4", "0">>)

LabelR740 == Str(<<"P", "o", "w", "e", "r", "E", "d", "g", "e", " ", "R", "7", "4", "0">>)

LabelR6400 == Str(<<"P", "o", "w", "e", "r", "E", "d", "g", "e", " ", "R", "6", "4", "0", "0">>)

\* An entry of the list _load_models_safely returns
Entry(name, productcode) == [name |-> name, productcode |-> productcode]

\* name: absent, a model name, or a YAML sequence; productcode: absent ("") or
\* a slug
Entries ==
    {Entry(PyNone, ""),
     Entry(PyStr(R640), ""), Entry(PyStr(R640), "poweredge-r640"),
     Entry(PyStr(R740), ""), Entry(PyStr(R740), "poweredge-r740"),
     Entry(PyList(R640), "poweredge-r640")}

ModelLists == UNION {[1..n -> Entries] : n \in 1..MaxModels}

\* The responses the listing API gives in a run
ApiResponses ==
    {ErrorResponse,
     OkResponse(<<>>),
     OkResponse(<<Item(FALSE, Date2024, <<>>, Ver110, IdC0FFE)>>),
     OkResponse(<<Item(TRUE, Date2024, <<>>, Ver110, <<>>),
                  Item(TRUE, Date2023, <<>>, Ver106, Id9N4DH)>>),
     OkResponse(<<Item(TRUE, Date2023, <<>>, Ver106, Id9N4DH)>>),
     OkResponse(<<Item(TRUE, Date2023, <<>>, Ver106, Id9N4DH),
                  Item(FALSE, Date2024, <<>>, Ver110, IdC0FFE),
                  Item(TRUE, <<>>, Date2024, Ver110, IdX7K2M)>>)}

\* The catalog texts _download_catalog_text returns in a run (besides "")
CatalogTexts ==
    {CatalogText(FALSE, <<>>),
     CatalogText(TRUE, <<Component(TRUE, <<LabelR6400>>, Ver110, Date2024, IdX7K2M),
                         Component(TRUE, <<LabelR640>>, Ver110, Date2024, <<>>),
                         Component(FALSE, <<LabelR640, LabelR740>>, Ver110, Date2024, Id9N4DH)>>),
     CatalogText(TRUE, <<Component(TRUE, <<LabelR640>>, Ver106, Date2023, Id9N4DH),
                         Component(TRUE, <<LabelR740, LabelR640>>, Ver110, Date2024, IdC0FFE),
                         Component(TRUE, <<>>, Ver110, Date2024, IdX7K2M)>>)}

\* What the loop body of the resolver makes of each of these responses, for
\* each platform code
JsonAttempts == [r \in ApiResponses, code \in Range(oscodes) |-> JsonAttempt(r, code)]

\* What _catalog_latest_cpld_for_model returns or raises for each of these
\* texts and each configured name
CatalogLookups ==
    [text \in CatalogTexts, name \in {e.name : e \in Entries} |->
        _catalog_latest_cpld_for_model(text, name)]

-----------------------------------------------------------------------------
(* main(): the run *)

NotCalled == [done |-> FALSE]

Returned(r) == [done |-> TRUE, out |-> r]

\* Every name taken for a name, None included
Truthy_Always(name) == TRUE

\* Python truthiness of a configured name
Truthy(name) == name.py # "None" /\ name.s # <<>>

\* Every entry taken to have a product code
HasProductcode_Always(entry) == TRUE

\* line 356: `if not productcode` is false
HasProductcode(entry) == entry.productcode # ""

\* Whether the name can be a dict key
Hashable(name) == name.py # "list"

NoWarning == "null"

\* dict item assignment  d[k] = v
DictSet(d, k, v) == [x \in DOMAIN d \cup {k} |-> IF x = k THEN v ELSE d[x]]

Call(op, what) == [op |-> op, arg |-> what]

\* The fields main copies from a resolver's dict into a row
ResolvedRow(name, productcode, found) ==
    [model |-> name, productcode |-> productcode, driverid |-> found.driverid,
     version |-> found.version, released |-> found.released, url |-> found.url,
     source |-> found.source]

ErrorRow(name, productcode, error) ==
    [model |-> name, productcode |-> productcode, error |-> error]

\* _write_overlay_and_report(overlay, details, warn)
Written(ov, rows, warn) == [overlay |-> ov, models |-> rows, warning |-> warn]

Init ==
    /\ pc = "start"
    /\ models = <<>>
    /\ i = 0
    /\ oscode = 0
    /\ resp = NoResponse
    /\ res = PyNone
    /\ overlay = <<>>
    /\ details = <<>>
    /\ unresolved = <<>>
    /\ xml_text = EmptyText
    /\ j = 0
    /\ calls = <<>>
    /\ files = <<>>
    /\ arg = PyNone
    /\ ret = NotCalled

\* The exception of _load_models_safely ends main, nothing is written
LoadFails_NoWrite ==
    /\ pc = "start"
    /\ pc' = "done"
    /\ UNCHANGED <<models, i, oscode, resp, res, overlay, details, unresolved, xml_text, j,
                   calls, files, arg, ret>>

\* lines 340-347: _load_models_safely raises; the files are written, main returns
LoadFails ==
    /\ pc = "start"
    /\ files' = Append(files, Written(overlay, details, "fatal_models_load"))
    /\ calls' = Append(calls, Call("write", "fatal_models_load"))
    /\ pc' = "done"
    /\ UNCHANGED <<models, i, oscode, resp, res, overlay, details, unresolved, xml_text, j,
                   arg, ret>>

\* lines 341-349: the models are loaded
LoadModels ==
    /\ pc = "start"
    /\ \E ms \in ModelLists : models' = ms
    /\ i' = 1
    /\ pc' = "pass1"
    /\ UNCHANGED <<oscode, resp, res, overlay, details, unresolved, xml_text, j, calls, files,
                   arg, ret>>

\* lines 352-355: an entry without a name is skipped
SkipUnnamed ==
    /\ pc = "pass1" /\ i <= Len(models)
    /\ ~Truthy(models[i].name)
    /\ i' = i + 1
    /\ UNCHANGED <<pc, models, oscode, resp, res, overlay, details, unresolved, xml_text, j,
                   calls, files, arg, ret>>

\* lines 356-361: no product code, the entry is left to the catalog pass
MissingProductcode ==
    /\ pc = "pass1" /\ i <= Len(models)
    /\ Truthy(models[i].name)
    /\ ~HasProductcode(models[i])
    /\ details' = Append(details, [model |-> models[i].name, error |-> "missing_productcode"])
    /\ unresolved' = Append(unresolved, models[i])
    /\ i' = i + 1
    /\ UNCHANGED <<pc, models, oscode, resp, res, overlay, xml_text, j, calls, files, arg, ret>>

\* line 363: _resolve_latest_cpld_json(productcode) is called
CallJson ==
    /\ pc = "pass1" /\ i <= Len(models)
    /\ Truthy(models[i].name)
    /\ HasProductcode(models[i])
    /\ calls' = Append(calls, Call("_resolve_latest_cpld_json", models[i].productcode))
    /\ oscode' = 1
    /\ pc' = "json"
    /\ UNCHANGED <<models, i, resp, res, overlay, details, unresolved, xml_text, j, files,
                   arg, ret>>

\* lines 106-115: the request for the next platform code, and its response
JsonRequest ==
    /\ pc = "json"
    /\ calls' = Append(calls, Call("requests.get", <<models[i].productcode, oscodes[oscode]>>))
    /\ \E r \in ApiResponses : resp' = r /\ res' = JsonAttempts[r, oscodes[oscode]]
    /\ pc' = "json_response"
    /\ UNCHANGED <<models, i, oscode, overlay, details, unresolved, xml_text, j, files,
                   arg, ret>>

\* lines 116-131, 140-142: nothing usable for this code, the next one is tried
JsonContinue ==
    /\ pc = "json_response"
    /\ res.continue
    /\ oscode < Len(oscodes)
    /\ oscode' = oscode + 1
    /\ resp' = NoResponse
    /\ res' = PyNone
    /\ pc' = "json"
    /\ UNCHANGED <<models, i, overlay, details, unresolved, xml_text, j, calls, files,
                   arg, ret>>

\* lines 132-139, 364-369, 380: the resolver returns a dict, main records it
JsonResolved ==
    /\ pc = "json_response"
    /\ ~res.continue
    /\ Hashable(models[i].name)
    /\ overlay' = DictSet(overlay, models[i].name, res.res.url)
    /\ details' = Append(details, ResolvedRow(models[i].name, models[i].productcode, res.res))
    /\ calls' = Append(calls, Call("time.sleep", <<>>))
    /\ i' = i + 1
    /\ oscode' = 0
    /\ resp' = NoResponse
    /\ res' = PyNone
    /\ pc' = "pass1"
    /\ UNCHANGED <<models, unresolved, xml_text, j, files, arg, ret>>

\* lines 365, 375-380: overlay[name] raises TypeError (the name is a list)
JsonException ==
    /\ pc = "json_response"
    /\ ~res.continue
    /\ ~Hashable(models[i].name)
    /\ details' = Append(details, ErrorRow(models[i].name, models[i].productcode, "json_error"))
    /\ unresolved' = Append(unresolved, models[i])
    /\ calls' = Append(calls, Call("time.sleep", <<>>))
    /\ i' = i + 1
    /\ oscode' = 0
    /\ resp' = NoResponse
    /\ res' = PyNone
    /\ pc' = "pass1"
    /\ UNCHANGED <<models, overlay, xml_text, j, files, arg, ret>>

\* lines 143, 370-374, 380: no code gave a result, the resolver returns None
JsonMiss ==
    /\ pc = "json_response"
    /\ res.continue
    /\ oscode = Len(oscodes)
    /\ details' = Append(details,
                         ErrorRow(models[i].name, models[i].productcode, "no_cpld_from_json"))
    /\ unresolved' = Append(unresolved, models[i])
    /\ calls' = Append(calls, Call("time.sleep", <<>>))
    /\ i' = i + 1
    /\ oscode' = 0
    /\ resp' = NoResponse
    /\ res' = PyNone
    /\ pc' = "pass1"
    /\ UNCHANGED <<models, overlay, xml_text, j, files, arg, ret>>

\* The catalog wanted whether or not an entry is unresolved
NeedsCatalog_Always == TRUE

\* line 383: `if unresolved`
NeedsCatalog == unresolved # <<>>

\* line 383: nothing is unresolved, the catalog is not fetched
NoCatalogNeeded ==
    /\ pc = "pass1" /\ i > Len(models)
    /\ ~NeedsCatalog
    /\ pc' = "finish"
    /\ UNCHANGED <<models, i, oscode, resp, res, overlay, details, unresolved, xml_text, j,
                   calls, files, arg, ret>>

\* lines 383-392: _download_catalog_text raises; a warning row, no catalog pass
DownloadFails ==
    /\ pc = "pass1" /\ i > Len(models)
    /\ NeedsCatalog
    /\ calls' = Append(calls, Call("_download_catalog_text", <<>>))
    /\ details' = Append(details, [warning |-> "catalog_download_error"])
    /\ pc' = "finish"
    /\ UNCHANGED <<models, i, oscode, resp, res, overlay, unresolved, xml_text, j, files,
                   arg, ret>>

\* lines 383-392: the catalog decodes to "", no catalog pass
DownloadEmpty ==
    /\ pc = "pass1" /\ i > Len(models)
    /\ NeedsCatalog
    /\ calls' = Append(calls, Call("_download_catalog_text", <<>>))
    /\ xml_text' = EmptyText
    /\ pc' = "finish"
    /\ UNCHANGED <<models, i, oscode, resp, res, overlay, details, unresolved, j, files,
                   arg, ret>>

\* lines 383-393: the catalog is downloaded, the catalog pass begins
DownloadCatalog ==
    /\ pc = "pass1" /\ i > Len(models)
    /\ NeedsCatalog
    /\ calls' = Append(calls, Call("_download_catalog_text", <<>>))
    /\ \E text \in CatalogTexts : xml_text' = text
    /\ j' = 1
    /\ pc' = "pass2"
    /\ UNCHANGED <<models, i, oscode, resp, res, overlay, details, unresolved, files, arg, ret>>

\* lines 393-396: _catalog_latest_cpld_for_model(xml_text, model_display=name)
\* is called for the next unresolved entry
CallCatalog ==
    /\ pc = "pass2" /\ j <= Len(unresolved)
    /\ calls' = Append(calls, Call("_catalog_latest_cpld_for_model", unresolved[j].name))
    /\ res' = CatalogLookups[xml_text, unresolved[j].name]
    /\ pc' = "catalog"
    /\ UNCHANGED <<models, i, oscode, resp, overlay, details, unresolved, xml_text, j,
                   files, arg, ret>>

\* lines 397-402: the catalog resolves the entry
CatalogResolved ==
    /\ pc = "catalog"
    /\ ~res.raised
    /\ res.res # PyNone
    /\ Hashable(unresolved[j].name)
    /\ overlay' = DictSet(overlay, unresolved[j].name, res.res.url)
    /\ details' = Append(details,
                         ResolvedRow(unresolved[j].name, unresolved[j].productcode, res.res))
    /\ j' = j + 1
    /\ res' = PyNone
    /\ pc' = "pass2"
    /\ UNCHANGED <<models, i, oscode, resp, unresolved, xml_text, calls, files, arg, ret>>

\* lines 403-407: the catalog has no CPLD for the entry
CatalogMiss ==
    /\ pc = "catalog"
    /\ ~res.raised
    /\ res.res = PyNone
    /\ details' = Append(details, ErrorRow(unresolved[j].name, unresolved[j].productcode,
                                           "no_cpld_from_catalog"))
    /\ j' = j + 1
    /\ res' = PyNone
    /\ pc' = "pass2"
    /\ UNCHANGED <<models, i, oscode, resp, overlay, unresolved, xml_text, calls, files,
                   arg, ret>>

\* lines 408-412: the catalog resolver has raised, or overlay[name] does
CatalogException ==
    /\ pc = "catalog"
    /\ res.raised \/ (res.res # PyNone /\ ~Hashable(unresolved[j].name))
    /\ details' = Append(details, ErrorRow(unresolved[j].name, unresolved[j].productcode,
                                           "catalog_parse_error"))
    /\ j' = j + 1
    /\ res' = PyNone
    /\ pc' = "pass2"
    /\ UNCHANGED <<models, i, oscode, resp, overlay, unresolved, xml_text, calls, files,
                   arg, ret>>

\* line 393: the loop over unresolved ends
CatalogPassDone ==
    /\ pc = "pass2" /\ j > Len(unresolved)
    /\ pc' = "finish"
    /\ UNCHANGED <<models, i, oscode, resp, res, overlay, details, unresolved, xml_text, j,
                   calls, files, arg, ret>>

StaticUrl == DriverUrl(Id9N4DH)

\* lines 416-421: the overlay is empty and os.environ, read at line 416, has
\* ALLOW_STATIC_FALLBACK=1: the static fallback
StaticFallback ==
    /\ pc = "finish"
    /\ DOMAIN overlay = {}
    /\ overlay' = DictSet(overlay, PyStr(R640), StaticUrl)
    /\ details' = Append(details,
                         [model |-> PyStr(R640), productcode |-> "poweredge-r640",
                          driverid |-> Id9N4DH, version |-> "(unknown)",
                          released |-> "(unknown)", url |-> StaticUrl,
                          source |-> "static_fallback"])
    /\ pc' = "write"
    /\ UNCHANGED <<models, i, oscode, resp, res, unresolved, xml_text, j, calls, files, arg, ret>>

\* lines 416, 424-425: the overlay is not empty or os.environ does not
\* enable the fallback; the files are written, main returns.  The two writes
\* of _write_overlay_and_report are taken to succeed: the names and the rows
\* are values yaml.safe_dump and json.dumps accept, the directory is writable.
WriteFiles ==
    /\ pc \in {"finish", "write"}
    /\ LET warn == IF DOMAIN overlay = {} THEN "Resolver found no CPLD URLs" ELSE NoWarning
       IN /\ files' = Append(files, Written(overlay, details, warn))
          /\ calls' = Append(calls, Call("write", warn))
    /\ pc' = "done"
    /\ UNCHANGED <<models, i, oscode, resp, res, overlay, details, unresolved, xml_text, j,
                   arg, ret>>

Next ==
    \/ LoadFails
    \/ LoadModels
    \/ SkipUnnamed
    \/ MissingProductcode
    \/ CallJson
    \/ JsonRequest
    \/ JsonContinue
    \/ JsonResolved
    \/ JsonException
    \/ JsonMiss
    \/ NoCatalogNeeded
    \/ DownloadFails
    \/ DownloadEmpty
    \/ DownloadCatalog
    \/ CallCatalog
    \/ CatalogResolved
    \/ CatalogMiss
    \/ CatalogException
    \/ CatalogPassDone
    \/ StaticFallback
    \/ WriteFiles

Spec == Init /\ [][Next]_vars

-----------------------------------------------------------------------------
(* The date normalizer on its own: an input is drawn, _parse_date is applied *)

MaxPad == 1

Blanks(n) == [k \in 1..n |-> " "]

DateFields ==
    {Str(<<"0", "0", "0", "1">>), Str(<<"2", "0", "2", "4">>), Str(<<"2", "0", "2", "3">>),
     Str(<<"0", "0", "0", "0">>), Str(<<"1">>), Str(<<"0", "1">>),
     Str(<<"2", "9">>), Str(<<"0", "2">>), Str(<<"1", "3">>),
     Str(<<"J", "a", "n">>), Str(<<"f", "e", "b">>), Str(<<"O", "C", "T">>),
     Str(<<>>)}

DateSeps == {Str(<<"-">>), Str(<<"/">>), Str(<<" ">>), Str(<<" ", "\t">>)}

DateSuffixes == {Str(<<>>), Str(<<"T", "1", "0", ":", "0", "0">>), Str(<<"Z">>)}

DateStrings ==
    {Blanks(a) \o f1 \o sep \o f2 \o sep \o f3 \o Blanks(a) \o suf :
        a \in 0..MaxPad, f1 \in DateFields, f2 \in DateFields,
        f3 \in DateFields, sep \in DateSeps, suf \in DateSuffixes}

DateInputs == {PyNone} \cup {PyStr(s) : s \in DateStrings}

\* main() at rest: the values of its variables in the pure-function specifications
MainIdle ==
    /\ models = <<>> /\ i = 0 /\ oscode = 0 /\ resp = NoResponse /\ res = PyNone
    /\ overlay = <<>> /\ details = <<>> /\ unresolved = <<>> /\ xml_text = EmptyText
    /\ j = 0 /\ calls = <<>> /\ files = <<>>

MainIdleUnchanged ==
    UNCHANGED <<models, i, oscode, resp, res, overlay, details, unresolved,
                xml_text, j, calls, files>>

InitDate ==
    /\ pc = "parse_date"
    /\ arg \in DateInputs
    /\ ret = NotCalled
    /\ MainIdle

CallParseDate ==
    /\ pc = "parse_date"
    /\ ret' = Returned(_parse_date(arg))
    /\ pc' = "returned"
    /\ UNCHANGED arg
    /\ MainIdleUnchanged

NextDate == CallParseDate

SpecDate == InitDate /\ [][NextDate]_vars

-----------------------------------------------------------------------------
(* The ranking of the two resolvers on its own: a list of candidates is     *)
(* drawn and handed to the JSON resolver as one response, or to the catalog *)
(* resolver as the components of a catalog that all name the R640           *)

MaxItems == 2

\* <<LUPDDate, DellVer>>: the later secondary date comes with the lower version
RankSecondary == {<<Str(<<>>), Ver106>>, <<Str(<<>>), Ver110>>, <<Date2024, Ver106>>}

\* The CPLD items of two release dates, with and without id, and one that has
\* only the secondary date
RankItems ==
    {Item(TRUE, rel, sec[1], sec[2], did) :
        rel \in {Date2023, Date2024}, sec \in RankSecondary,
        did \in {Id9N4DH, IdX7K2M, Str(<<>>)}}
    \cup {Item(TRUE, Str(<<>>), Date2024, Ver106, Id9N4DH)}

RankLists == UNION {[1..n -> RankItems] : n \in 1..MaxItems}

\* The SoftwareComponent with the fields of an item (it has no secondary date)
AsComponent(d) == Component(d.cpld, <<LabelR640>>, d.DellVer, d.ReleaseDate, d.driverid)

AsCatalog(items) == CatalogText(TRUE, [n \in 1..Len(items) |-> AsComponent(items[n])])

InitRank ==
    /\ pc = "rank"
    /\ arg \in RankLists
    /\ ret = NotCalled
    /\ MainIdle

\* lines 120-139 on the response
RankJson ==
    /\ pc = "rank"
    /\ ret' = [done |-> TRUE, fn |-> "json", latest |-> JsonLatest(arg),
               out |-> JsonAttempt(OkResponse(arg), oscodes[1])]
    /\ pc' = "returned"
    /\ UNCHANGED arg
    /\ MainIdleUnchanged

\* lines 221-300 on the catalog
RankCatalog ==
    /\ pc = "rank"
    /\ ret' = [done |-> TRUE, fn |-> "catalog",
               out |-> _catalog_latest_cpld_for_model(AsCatalog(arg), PyStr(R640))]
    /\ pc' = "returned"
    /\ UNCHANGED arg
    /\ MainIdleUnchanged

NextRank == RankJson \/ RankCatalog

SpecRank == InitRank /\ [][NextRank]_vars

-----------------------------------------------------------------------------
(* Claims about the date normalizer (SpecDate) *)

\* Whether one of the three formats matches the date part of the input
C10_Parses(v) ==
    \/ StrptimeDMY(DatePart(v)).ok
    \/ StrptimeISO(DatePart(v)).ok
    \/ StrptimeSlash(DatePart(v)).ok

\* C10, as claimed: _parse_date never raises, returns datetime.min for every
\* input that matches none of the three formats, and datetime.min is strictly
\* below the value of every input that does parse.
C10_SentinelStrictlyBelow ==
    ret.done =>
        /\ ~ret.out.raised
        /\ ~C10_Parses(arg) => ret.out.value = datetime_min
        /\ C10_Parses(arg) => DatetimeLT(datetime_min, ret.out.value)

\* C10, amended: _parse_date never raises, returns datetime.min for every
\* input that matches none of the three formats, and datetime.min is never
\* above the value of an input that does parse: it is strictly below every
\* parsed date except 0001-01-01, which parses to datetime.min itself.
C10_SentinelNeverAbove ==
    ret.done =>
        /\ ~ret.out.raised
        /\ ~C10_Parses(arg) => ret.out.value = datetime_min
        /\ ~DatetimeLT(ret.out.value, datetime_min)
        /\ C10_Parses(arg) /\ ret.out.value # datetime(1, 1, 1)
              => DatetimeLT(datetime_min, ret.out.value)

\* C10, witness: a non-empty string with a time part after "T" that matches no
\* format has been given the sentinel
C10_GarbageGotSentinel ==
    /\ ret.done
    /\ arg.py = "str"
    /\ \E n \in 1..Len(arg.s) : arg.s[n] = "T"
    /\ DatePart(arg) # <<>>
    /\ ~C10_Parses(arg)
    /\ ret.out = [raised |-> FALSE, value |-> datetime_min]

-----------------------------------------------------------------------------
(* The label match on its own: a configured name and a catalog label are     *)
(* drawn, _display_matches is applied                                        *)

R64 == Str(<<"R", "6", "4">>)

LabelDellEmcR640 ==
    Str(<<"D", "e", "l", "l", " ", "E", "M", "C", " ",
          "P", "o", "w", "e", "r", "E", "d", "g", "e", " ", "R", "6", "4", "0">>)

R650 == Str(<<"R", "6", "5", "0">>)

R6515 == Str(<<"R", "6", "5", "1", "5">>)

\* The configured names: model names in either case, with blanks around them
MatchNames ==
    {Blanks(a) \o n \o Blanks(a) :
        a \in 0..MaxPad, n \in {R640, Str(<<"r", "6", "4", "0">>), R64, R650}}

\* What a catalog label has before the model: nothing, a brand prefix that
\* _labels_for_name generates (also in capitals, with runs of blanks and tabs),
\* or one it does not generate
MatchBrands ==
    {Str(<<>>),
     Str(<<"P", "o", "w", "e", "r", "E", "d", "g", "e", " ">>),
     Str(<<"D", "e", "l", "l", " ", "E", "M", "C", " ",
           "P", "o", "w", "e", "r", "E", "d", "g", "e", " ">>),
     Str(<<"D", "E", "L", "L", " ", " ", "E", "M", "C", "\t",
           "P", "O", "W", "E", "R", "E", "D", "G", "E", " ", " ">>),
     Str(<<"D", "e", "l", "l", " ", "E", "M", "C", " ">>)}

\* The models a catalog label names
MatchModels ==
    {R640, R64, R650, R740,
     Str(<<"R", "6", "4", "0", "0">>),
     R6515,
     Str(<<"X", "R", "6", "4", "0">>),
     Str(<<"R", "6", "4", "0", "x", "d">>),
     Str(<<"R", "6", "4", "0", "/", "R", "7", "4", "0">>)}

MatchLabels == {Str(<<>>)} \cup {brand \o model : brand \in MatchBrands, model \in MatchModels}

InitMatch ==
    /\ pc = "display_matches"
    /\ arg \in {[name |-> n, display |-> d] : n \in MatchNames, d \in MatchLabels}
    /\ ret = NotCalled
    /\ MainIdle

CallDisplayMatches ==
    /\ pc = "display_matches"
    /\ ret' = Returned(_display_matches(arg.name, arg.display))
    /\ pc' = "returned"
    /\ UNCHANGED arg
    /\ MainIdleUnchanged

NextMatch == CallDisplayMatches

SpecMatch == InitMatch /\ [][NextMatch]_vars

-----------------------------------------------------------------------------
(* Claims about the ranking (SpecRank) *)

\* The key the claims rank by: release date, secondary date (datetime.min when
\* the record has none), version
C8_Key(rel, lupd, ver) ==
    <<_parse_date(PyStr(rel)).value, _parse_date(PyStr(lupd)).value, ver>>

C8_KeyOf(d) == C8_Key(d.ReleaseDate, d.LUPDDate, d.DellVer)

\* The catalog's records carry no secondary date
C8_CatalogKeyOf(d) == C8_Key(d.ReleaseDate, <<>>, d.DellVer)

\* a is strictly below b: release date first, then secondary date, then version
C8_Below(a, b) ==
    IF a[1] # b[1] THEN DatetimeLT(a[1], b[1])
    ELSE IF a[2] # b[2] THEN DatetimeLT(a[2], b[2])
    ELSE StrLT(a[3], b[3])

\* The indices of the candidates no other candidate is above
C8_Maximal(keys) == {a \in 1..Len(keys) : \A b \in 1..Len(keys) : ~C8_Below(keys[a], keys[b])}

\* The first candidate, in input order, among the maximal ones
C8_FirstMaximal(cands, keys) == cands[Min(C8_Maximal(keys))]

C8_JsonExpected(cands) ==
    C8_FirstMaximal(cands, [a \in 1..Len(cands) |-> C8_KeyOf(cands[a])])

C8_CatalogExpected(cands) ==
    C8_FirstMaximal(cands, [a \in 1..Len(cands) |-> C8_CatalogKeyOf(cands[a])])

\* The candidates of the drawn list that have a driver id
C7_WithId == LET HasId(d) == d.driverid # <<>> IN SelectSeq(arg, HasId)

C8_SameRecord(found, d) ==
    /\ found.driverid = d.driverid
    /\ found.version = d.DellVer
    /\ found.released = d.ReleaseDate

\* C8: of a non-empty list of candidates each resolver selects one that is
\* maximal under (release date, secondary date, version), compared in that
\* order, and among the candidates of maximal key the first in input order; so
\* a candidate whose key is above all others is selected wherever it stands.
C8_SelectsFirstMaximal ==
    ret.done =>
        /\ ret.fn = "json" => ret.latest = C8_JsonExpected(arg)
        /\ ret.fn = "catalog" /\ C7_WithId # <<>> =>
              /\ ret.out.res # PyNone
              /\ C8_SameRecord(ret.out.res, C8_CatalogExpected(C7_WithId))

\* C8, witness: the 2024-06-01 candidate stands after the 2023-01-01 one and
\* the resolver has selected it
C8_NewestSelectedFromBehind ==
    /\ ret.done /\ ret.fn = "json"
    /\ Len(arg) = 2
    /\ arg[1].ReleaseDate = Date2023 /\ arg[2].ReleaseDate = Date2024
    /\ ret.latest = arg[2]

\* C7, as claimed: in both resolvers a candidate without driver id is left out
\* before the ranking, so whenever a candidate of the list has an id the
\* resolver returns the best-ranked of the candidates that have one.
C7_IdlessLeftOutBeforeRanking ==
    ret.done /\ C7_WithId # <<>> =>
        /\ ret.fn = "json" =>
              /\ ret.out # Continue
              /\ C8_SameRecord(ret.out.res, C8_JsonExpected(C7_WithId))
        /\ ret.fn = "catalog" =>
              /\ ret.out.res # PyNone
              /\ C8_SameRecord(ret.out.res, C8_CatalogExpected(C7_WithId))

-----------------------------------------------------------------------------
(* Claims about a run of main() (Spec) *)

\* The rows of the report that name the model n
C1_RowsOf(n) == {k \in 1..Len(details) : "model" \in DOMAIN details[k] /\ details[k].model = n}

\* An entry main does not skip: its name is neither None nor ""
C1_Named(e) == e.name.py # "None" /\ e.name.s # <<>>

\* The entries of the model list that carry the name n
C1_Listed(n) == {k \in 1..Len(models) : models[k].name = n}

C1_ApiErrors == {"missing_productcode", "no_cpld_from_json", "json_error"}

C1_ApiSources == {"json:NAA", "json:W2022", "json:WT64A", "json:UBT20"}

C1_CatalogErrors == {"no_cpld_from_catalog", "catalog_parse_error"}

\* A row of the API pass
C1_IsApiRow(r) ==
    \/ "error" \in DOMAIN r /\ r.error \in C1_ApiErrors
    \/ "source" \in DOMAIN r /\ r.source \in C1_ApiSources

\* A row of the API pass that leaves the entry unresolved
C1_IsApiMiss(r) == "error" \in DOMAIN r /\ r.error \in C1_ApiErrors

\* A row of the catalog pass
C1_IsCatalogRow(r) ==
    \/ "error" \in DOMAIN r /\ r.error \in C1_CatalogErrors
    \/ "source" \in DOMAIN r /\ r.source = "catalog"

C1_IsStaticRow(r) == "source" \in DOMAIN r /\ r.source = "static_fallback"

C1_StaticFallbackRan == \E k \in 1..Len(details) : C1_IsStaticRow(details[k])

\* C1, as claimed: at the end of a run the report holds exactly one row for each
\* configured model.  Stated for the entries that have a name, whose name is
\* listed once, in runs without the static fallback.
C1_ExactlyOneRowPerModel ==
    pc = "done" /\ ~C1_StaticFallbackRan =>
        \A m \in 1..Len(models) :
            C1_Named(models[m]) /\ Cardinality(C1_Listed(models[m].name)) = 1
                => Cardinality(C1_RowsOf(models[m].name)) = 1

\* C1, amended: at the end of a run every entry that has a name has exactly one
\* row of the API pass and, if that row is an error and the catalog text was
\* downloaded and is not empty, exactly one more row of the catalog pass; an
\* entry without a name has no row, and the only other row naming a model is
\* the one of the static fallback.
C1_OneRowPerStage ==
    pc = "done" =>
        /\ \A k \in 1..Len(details) :
               "model" \in DOMAIN details[k] =>
                   /\ \/ C1_IsStaticRow(details[k])
                      \/ \E m \in 1..Len(models) :
                             C1_Named(models[m]) /\ models[m].name = details[k].model
                   /\ \/ C1_IsApiRow(details[k])
                      \/ C1_IsCatalogRow(details[k])
                      \/ C1_IsStaticRow(details[k])
        /\ \A m \in 1..Len(models) :
               C1_Named(models[m]) =>
                   LET rows == C1_RowsOf(models[m].name)
                       api == {k \in rows : C1_IsApiRow(details[k])}
                       miss == {k \in rows : C1_IsApiMiss(details[k])}
                       cat == {k \in rows : C1_IsCatalogRow(details[k])}
                   IN /\ Cardinality(api) = Cardinality(C1_Listed(models[m].name))
                      /\ Cardinality(cat) = IF xml_text.empty THEN 0 ELSE Cardinality(miss)

\* C1, witness: a finished run in which an entry missed by the API has its
\* error row of the API pass and a later row of the catalog pass
C1_MissThenCatalogRow ==
    /\ pc = "done"
    /\ \E a \in 1..Len(details), b \in 1..Len(details) :
           /\ a < b
           /\ "error" \in DOMAIN details[a] /\ details[a].error = "no_cpld_from_json"
           /\ C1_IsCatalogRow(details[b])
           /\ details[b].model = details[a].model

C2_Downloads == {k \in 1..Len(calls) : calls[k].op = "_download_catalog_text"}

C2_ApiOps == {"_resolve_latest_cpld_json", "requests.get", "time.sleep"}

\* C2: the catalog is downloaded at most once in a run; when it is, the API
\* pass has gone over all the models (each named entry has its row of the API
\* pass, each one with a product code had its resolver call), at least one of
\* them is unresolved, and no API call follows.
C2_DownloadLazyAtMostOnce ==
    /\ Cardinality(C2_Downloads) <= 1
    /\ \A k \in C2_Downloads :
           /\ i > Len(models)
           /\ pc \in {"pass2", "catalog", "finish", "write", "done"}
           /\ \A m \in (k + 1)..Len(calls) : calls[m].op \notin C2_ApiOps
           /\ Cardinality({m \in 1..(k - 1) : calls[m].op = "_resolve_latest_cpld_json"})
                  = Cardinality({m \in 1..Len(models) :
                                     C1_Named(models[m]) /\ models[m].productcode # ""})
           /\ Cardinality({m \in 1..Len(details) : C1_IsApiRow(details[m])})
                  = Cardinality({m \in 1..Len(models) : C1_Named(models[m])})
           /\ \E m \in 1..Len(details) : C1_IsApiMiss(details[m])

\* C2, witness: a finished run with two unresolved entries, both looked up in
\* the text of one download
C2_OneDownloadForTwo ==
    /\ pc = "done"
    /\ Len(unresolved) = 2
    /\ Cardinality(C2_Downloads) = 1
    /\ Cardinality({k \in 1..Len(calls) : calls[k].op = "_catalog_latest_cpld_for_model"}) = 2

\* C3, as claimed: when the catalog download fails the warning is recorded and
\* every entry left unresolved by the API pass gets a row of the catalog stage
\* that marks it as missed.
C3_DownloadFailureMarksMisses ==
    pc = "done" =>
        \A w \in 1..Len(details) :
            "warning" \in DOMAIN details[w] =>
                \A m \in 1..Len(unresolved) :
                    \E k \in 1..Len(details) :
                        /\ "error" \in DOMAIN details[k]
                        /\ details[k].error \in C1_CatalogErrors
                        /\ details[k].model = unresolved[m].name

\* The platform codes in the order the claim gives
C4_Order == <<"NAA", "W2022", "WT64A", "UBT20">>

\* The position in calls of the resolver call in progress
C4_Entered == Max({k \in 1..Len(calls) : calls[k].op = "_resolve_latest_cpld_json"})

\* The calls made since the resolver was entered: its requests so far
C4_Requests == SubSeq(calls, C4_Entered + 1, Len(calls))

C4_InResolver == pc \in {"json", "json_response"}

\* A response is usable when it is no error and the CPLD item ranked first among
\* its CPLD items has an extractable driver id (the ranking is C8's, the
\* treatment of items without id C7's)
C4_Usable(response) ==
    /\ response.kind = "ok"
    /\ LET IsCpld(d) == d.cpld
           cpld == SelectSeq(response.items, IsCpld)
       IN cpld # <<>> /\ C8_JsonExpected(cpld).driverid # <<>>

C4_LastRow == details[Len(details)]

\* While the resolver runs, its requests so far are for the codes NAA, W2022,
\* WT64A, UBT20 in this order, all for the product code it was called with
C4_RequestsInOrder ==
    C4_InResolver =>
        /\ calls[C4_Entered].arg = models[i].productcode
        /\ Len(C4_Requests) <= Len(C4_Order)
        /\ Len(C4_Requests) = IF pc = "json" THEN oscode - 1 ELSE oscode
        /\ \A m \in 1..Len(C4_Requests) :
               C4_Requests[m] = [op |-> "requests.get",
                                 arg |-> <<models[i].productcode, C4_Order[m]>>]

\* One step of the resolver
C4_Step ==
    /\ pc = "json" =>
           \* the next code is requested
           /\ Len(C4_Requests) < Len(C4_Order)
           /\ calls' = Append(calls, [op |-> "requests.get",
                                      arg |-> <<models[i].productcode,
                                                C4_Order[Len(C4_Requests) + 1]>>])
           /\ pc' = "json_response"
    /\ pc = "json_response" /\ C4_Usable(resp) =>
           \* the result of this code is returned, no later code is requested
           /\ pc' = "pass1"
           /\ calls' = Append(calls, [op |-> "time.sleep", arg |-> <<>>])
           /\ Len(details') = Len(details) + 1
           /\ LET row == details'[Len(details')]
                  top == C8_JsonExpected(SelectSeq(resp.items, LAMBDA d : d.cpld))
              IN \/ /\ "source" \in DOMAIN row
                    /\ row.source = "json:" \o C4_Order[Len(C4_Requests)]
                    /\ row.driverid = top.driverid
                 \/ /\ "error" \in DOMAIN row
                    /\ row.error = "json_error"
                    /\ models[i].name.py = "list"
    /\ pc = "json_response" /\ ~C4_Usable(resp) /\ Len(C4_Requests) < Len(C4_Order) =>
           \* an error or a response without usable item: the next code is tried
           /\ pc' = "json"
           /\ calls' = calls
           /\ details' = details
    /\ pc = "json_response" /\ ~C4_Usable(resp) /\ Len(C4_Requests) = Len(C4_Order) =>
           \* the fourth code has failed too: absent
           /\ pc' = "pass1"
           /\ Len(details') = Len(details) + 1
           /\ details'[Len(details')].error = "no_cpld_from_json"
    /\ Len(details') > Len(details) /\ "error" \in DOMAIN details'[Len(details')]
       /\ details'[Len(details')].error = "no_cpld_from_json" =>
           \* absent only after the four requests
           /\ pc = "json_response"
           /\ Len(C4_Requests) = Len(C4_Order)
           /\ ~C4_Usable(resp)

\* C4: _resolve_latest_cpld_json requests the platform codes in the order NAA,
\* W2022, WT64A, UBT20; at the first usable response it returns that code's
\* result and requests no later code; after an error or a response without
\* usable item it goes on to the next code; it returns absent only after the
\* fourth code has failed.
C4_FirstUsableCodeWins == [](C4_RequestsInOrder) /\ [][C4_Step]_vars

\* C4, witness: a finished run with a model resolved by the third code after
\* an error for the first, and a model for which all four codes failed
C4_ThirdCodeAndAbsent ==
    /\ pc = "done"
    /\ \E k \in 1..Len(details) :
           "source" \in DOMAIN details[k] /\ details[k].source = "json:WT64A"
    /\ \E k \in 1..Len(details) :
           "error" \in DOMAIN details[k] /\ details[k].error = "no_cpld_from_json"
    /\ \E k \in 1..(Len(calls) - 4) :
           \A m \in 1..4 : calls[k + m].op = "requests.get" /\ calls[k + m].arg[2] = C4_Order[m]

\* The steps done and the loop positions, a number that every step raises and
\* the lengths of the lists bound
C5_Progress ==
    LET rank == CASE pc = "start" -> 0
                  [] pc \in {"pass1", "json", "json_response"} -> 1
                  [] pc \in {"pass2", "catalog"} -> 2
                  [] pc = "finish" -> 3
                  [] pc = "write" -> 4
                  [] pc = "done" -> 5
    IN 100 * rank + 10 * i + j + oscode + Len(calls) + Len(details)

C5_Writes == {k \in 1..Len(calls) : calls[k].op = "write"}

C5_WrittenOnceAtTheEnd ==
    /\ pc = "done" =>
           /\ Len(files) = 1
           /\ Cardinality(C5_Writes) = 1
           /\ calls[Len(calls)].op = "write"
           /\ files[1].warning = "fatal_models_load" =>
                  /\ files[1].overlay = <<>>
                  /\ files[1].models = <<>>
                  /\ Len(calls) = 1
           /\ files[1].warning # "fatal_models_load" =>
                  /\ files[1].overlay = overlay
                  /\ files[1].models = details
    /\ pc # "done" =>
           /\ files = <<>>
           /\ C5_Writes = {}
           /\ ENABLED Next

\* C5: a run of main() goes on, whatever a load, a request, the download or a
\* catalog lookup raises, until it has written the files, which it does once,
\* as its last step; every step brings the end nearer; when the models cannot
\* be loaded the files hold an empty overlay, no rows and the fatal warning,
\* and the write is the only call of the run.
C5_AlwaysWritesOnce == [](C5_WrittenOnceAtTheEnd) /\ [][C5_Progress' > C5_Progress]_vars

\* C5, witness: the run that could not load the models has written the files
C5_FatalWritten ==
    /\ pc = "done"
    /\ files = <<[overlay |-> <<>>, models |-> <<>>, warning |-> "fatal_models_load"]>>
    /\ calls = <<[op |-> "write", arg |-> "fatal_models_load"]>>

\* C6, as claimed: a step never removes an entry of the overlay nor replaces its
\* URL, and never changes or drops a row of the report.
C6_OverlayAndRowsOnlyGrow ==
    [][/\ \A n \in DOMAIN overlay : n \in DOMAIN overlay' /\ overlay'[n] = overlay[n]
       /\ Len(details') >= Len(details)
       /\ SubSeq(details', 1, Len(details)) = details]_vars

\* The entries main does not skip, in the order of the list
C9_Named == SelectSeq(models, C1_Named)

\* Those of them that carry a product code
C9_WithCode == SelectSeq(C9_Named, LAMBDA e : e.productcode # "")

C9_ResolverCalls == SelectSeq(calls, LAMBDA c : c.op = "_resolve_latest_cpld_json")

C9_CatalogCalls == SelectSeq(calls, LAMBDA c : c.op = "_catalog_latest_cpld_for_model")

C9_ApiRows == SelectSeq(details, C1_IsApiRow)

C9_CatalogRows == SelectSeq(details, C1_IsCatalogRow)

\* The names of the entries whose row of the API pass is an error, in order
C9_MissedNames ==
    LET idx == SelectSeq([k \in 1..Len(C9_ApiRows) |-> k],
                         LAMBDA k : C1_IsApiMiss(C9_ApiRows[k]))
    IN [m \in 1..Len(idx) |-> C9_Named[idx[m]].name]

\* A row that records a resolution of the name n
C9_ResolvedRowFor(n, source) ==
    \E k \in 1..Len(details) :
        /\ "url" \in DOMAIN details[k]
        /\ details[k].model = n
        /\ details[k].source \in source

C9_ErrorRowFor(n) ==
    \E k \in 1..Len(details) : "error" \in DOMAIN details[k] /\ details[k].model = n

\* C9, as claimed, in its last part: at the end of a run a model without product
\* code that the catalog does not match has a failure row and no overlay
\* entry.  Stated for the names listed once whose lookup in the downloaded
\* catalog found nothing.
C9_UnmatchedHasNoOverlayEntry ==
    pc = "done" =>
        \A m \in 1..Len(models) :
            /\ C1_Named(models[m])
            /\ models[m].productcode = ""
            /\ Cardinality(C1_Listed(models[m].name)) = 1
            /\ \E k \in 1..Len(details) :
                   /\ "error" \in DOMAIN details[k]
                   /\ details[k].error = "no_cpld_from_catalog"
                   /\ details[k].model = models[m].name
            => /\ C9_ErrorRowFor(models[m].name)
               /\ models[m].name \notin DOMAIN overlay

\* C9, amended: the entries go through the API stage in the order of the list,
\* one resolver call for each named entry with a product code and none, nor any
\* request, for one without, one row of the API pass each; the catalog stage
\* takes, in the same order, exactly the entries whose row of the API pass is an
\* error, one lookup and one row each, and none when the catalog text is
\* missing or empty; a name whose entries all lack a product code and that the
\* catalog has not resolved ends with an error row and, unless the static
\* fallback has written it (R640, with ALLOW_STATIC_FALLBACK=1 and an
\* otherwise empty overlay), without overlay entry, in a run that ends by
\* writing the files without the fatal warning.
C9_StagesPerEntry ==
    /\ Len(C9_ResolverCalls) <= Len(C9_WithCode)
    /\ \A k \in 1..Len(C9_ResolverCalls) : C9_ResolverCalls[k].arg = C9_WithCode[k].productcode
    /\ \A k \in 1..Len(calls) : calls[k].op = "requests.get" => calls[k].arg[1] # ""
    /\ Len(C9_ApiRows) <= Len(C9_Named)
    /\ \A k \in 1..Len(C9_ApiRows) :
           /\ C9_ApiRows[k].model = C9_Named[k].name
           /\ C9_Named[k].productcode = ""
                  <=> ("error" \in DOMAIN C9_ApiRows[k]
                           /\ C9_ApiRows[k].error = "missing_productcode")
    /\ Len(C9_CatalogCalls) <= Len(C9_MissedNames)
    /\ \A k \in 1..Len(C9_CatalogCalls) : C9_CatalogCalls[k].arg = C9_MissedNames[k]
    /\ Len(C9_CatalogRows) \in {Len(C9_CatalogCalls) - 1, Len(C9_CatalogCalls)}
    /\ \A k \in 1..Len(C9_CatalogRows) : C9_CatalogRows[k].model = C9_MissedNames[k]
    /\ pc = "done" /\ models # <<>> =>
           /\ Len(C9_ResolverCalls) = Len(C9_WithCode)
           /\ Len(C9_ApiRows) = Len(C9_Named)
           /\ Len(C9_CatalogRows) = Len(C9_CatalogCalls)
           /\ Len(C9_CatalogCalls) = IF xml_text.empty THEN 0 ELSE Len(C9_MissedNames)
           /\ files[1].warning \in {NoWarning, "Resolver found no CPLD URLs"}
           /\ \A m \in 1..Len(models) :
                  /\ C1_Named(models[m])
                  /\ \A k \in C1_Listed(models[m].name) : models[k].productcode = ""
                  /\ ~C9_ResolvedRowFor(models[m].name, {"catalog"})
                  => /\ C9_ErrorRowFor(models[m].name)
                     /\ models[m].name \in DOMAIN overlay =>
                            /\ models[m].name = PyStr(R640)
                            /\ C9_ResolvedRowFor(models[m].name, {"static_fallback"})
                            /\ \A k \in 1..Len(details) :
                                   "url" \in DOMAIN details[k] => C1_IsStaticRow(details[k])

\* C9, witness: a finished run whose only entry has no product code and is not
\* matched by the downloaded catalog: no request, an error row of each stage,
\* no overlay entry
C9_NoCodeNoMatch ==
    /\ pc = "done"
    /\ Len(models) = 1
    /\ models[1].productcode = ""
    /\ Len(details) = 2
    /\ "error" \in DOMAIN details[1] /\ details[1].error = "missing_productcode"
    /\ "error" \in DOMAIN details[2] /\ details[2].error = "no_cpld_from_catalog"
    /\ \A k \in 1..Len(calls) : calls[k].op \notin C2_ApiOps
    /\ DOMAIN overlay = {}

-----------------------------------------------------------------------------
(* Claims about the label match (SpecMatch) *)

\* The five labels the claim has generated for a canonical name: the bare
\* name and the name after "poweredge", "dell", "dell poweredge" and
\* "dell emc poweredge"
C11_Labels(base) ==
    {base,
     Chars_poweredge \o <<" ">> \o base,
     Chars_dell \o <<" ">> \o base,
     Chars_dell \o <<" ">> \o Chars_poweredge \o <<" ">> \o base,
     Chars_dell \o <<" ">> \o Chars_emc \o <<" ">> \o Chars_poweredge \o <<" ">> \o base}

\* base stands in disp as a whole word: an occurrence with no letter, digit or
\* underscore right before it and none right after it
C11_WholeWord(base, disp) ==
    \E p \in 0..(Len(disp) - Len(base)) :
        /\ SubSeq(disp, p + 1, p + Len(base)) = base
        /\ p = 0 \/ disp[p] \notin WordChars
        /\ p + Len(base) = Len(disp) \/ disp[p + Len(base) + 1] \notin WordChars

C11_Expected(name, display) ==
    \/ _canon(display) \in C11_Labels(_canon(name))
    \/ C11_WholeWord(_canon(name), _canon(display))

\* C11: _display_matches(name, label) is true exactly when the canonical label
\* is one of the five brand-prefixed labels of the canonical name or holds the
\* canonical name as a whole word; R640 matches R640, PowerEdge R640 and
\* Dell EMC PowerEdge R640, while R64 does not match PowerEdge R640 and R650
\* does not match a label of the R6515.
C11_MatchesLabelOrWholeWord ==
    ret.done =>
        /\ ret.out = C11_Expected(arg.name, arg.display)
        /\ arg.name = R640 /\ arg.display \in {R640, LabelR640, LabelDellEmcR640} => ret.out
        /\ arg.name = R64 /\ arg.display = LabelR640 => ~ret.out
        /\ arg.name = R650 /\ arg.display \in {brand \o R6515 : brand \in MatchBrands}
               => ~ret.out

\* C11, witness: R64 has been matched against the label PowerEdge R640 and
\* the answer is no
C11_R64NotR640 ==
    /\ ret.done
    /\ arg = [name |-> R64, display |-> LabelR640]
    /\ ret.out = FALSE

-----------------------------------------------------------------------------
(* Claims about the delay (Spec) *)

\* C12, as claimed: between every two successive requests to the listing API
\* there is a delay step, time.sleep, whether the two requests are for two
\* models or for two platform codes of one model.
C12_DelayBetweenRequests ==
    \A a \in 1..Len(calls), b \in 1..Len(calls) :
        a < b /\ calls[a].op = "requests.get" /\ calls[b].op = "requests.get"
            => \E m \in (a + 1)..(b - 1) : calls[m].op = "time.sleep"

=============================================================================
